---- MODULE Spec2Model ----
(***************************************************************************)
(* Product API (Express + Mongoose): the product store, the authenticate   *)
(* and validateProduct middleware, the CRUD, listing and statistics        *)
(* handlers of routes/productRoutes.js and the global errorHandler.        *)
(*                                                                         *)
(* JavaScript values are records tagged by `kind` ("undefined", "null",    *)
(* "string", "number", "boolean", "NaN"); a string's `val` is a sequence   *)
(* of one-character strings, so that trim and parseInt are computed.       *)
(***************************************************************************)
EXTENDS Integers, Sequences, FiniteSets, TLC

\* ------------------------------------------------------------------ bounds

\* Number of identities the store may hand out in one run.
MaxIds == 2

\* ---------------------------------------------------------- JavaScript values

Undef == [kind |-> "undefined"]
Null == [kind |-> "null"]
NaN == [kind |-> "NaN"]
Str(s) == [kind |-> "string", val |-> s]
Num(n) == [kind |-> "number", val |-> n]
Bool(b) == [kind |-> "boolean", val |-> b]

\* JavaScript truthiness: undefined, null, NaN, "", 0 and false are falsy.
Truthy(v) ==
    CASE v.kind = "undefined" -> FALSE
      [] v.kind = "null" -> FALSE
      [] v.kind = "NaN" -> FALSE
      [] v.kind = "string" -> Len(v.val) > 0
      [] v.kind = "number" -> v.val # 0
      [] v.kind = "boolean" -> v.val

IsSpace(c) == c = " "

RECURSIVE TrimStart(_)
TrimStart(s) ==
    IF s = <<>> THEN <<>>
    ELSE IF IsSpace(Head(s)) THEN TrimStart(Tail(s)) ELSE s

RECURSIVE TrimEnd(_)
TrimEnd(s) ==
    IF s = <<>> THEN <<>>
    ELSE IF IsSpace(s[Len(s)]) THEN TrimEnd(SubSeq(s, 1, Len(s) - 1)) ELSE s

TrimKeepsSpaces(s) == s

\* String.prototype.trim
Trim(s) == TrimEnd(TrimStart(s))

\* ------------------------------------------------------------- configuration

\* process.env.API_KEY || 'default-secret-key-123'
validApiKey == <<"K", "1">>

\* ------------------------------------------------------------------ the store

\* Well-formed ObjectId strings, in the order the store hands them out, and
\* one well-formed identity that is never handed out.
DigitChar(n) == <<"0", "1", "2", "3", "4", "5", "6", "7", "8", "9">>[n + 1]
IdSeq == [n \in 1..(MaxIds + 1) |-> <<"i", "d", DigitChar(n)>>]
ObjectIds == {IdSeq[n] : n \in 1..(MaxIds + 1)}
\* A value that cannot be cast to an ObjectId.
MalformedId == <<"b", "a", "d">>

\* Mongoose casts the id of findById / findByIdAndUpdate / findByIdAndDelete
\* and throws a CastError when it cannot.
CastsToObjectId(id) == id \in ObjectIds

VARIABLES
    store,       \* the products collection: ObjectId -> document
    nextId,      \* index in IdSeq of the next identity the store assigns
    production,  \* process.env.NODE_ENV === 'production'
    req,         \* the request handled last
    res,         \* its response
    stats        \* the GET /stats handler in progress: its position and locals

vars == <<store, nextId, production, req, res, stats>>

\* ------------------------------------------------------- JavaScript numbers

Digits == <<"0", "1", "2", "3", "4", "5", "6", "7", "8", "9">>
IsDigit(c) == \E i \in 1..10 : Digits[i] = c
DigitVal(c) == (CHOOSE i \in 1..10 : Digits[i] = c) - 1

\* The longest prefix of decimal digits of s: whether there is one, and its value.
RECURSIVE DigitsPrefix(_, _, _)
DigitsPrefix(s, seen, acc) ==
    IF s # <<>> /\ IsDigit(Head(s))
    THEN DigitsPrefix(Tail(s), TRUE, 10 * acc + DigitVal(Head(s)))
    ELSE [seen |-> seen, val |-> acc]

\* Leading white space is skipped, a sign is read, then decimal digits up to
\* the first other character; NaN when there is no digit.
ParseNumberPrefix(s) ==
    LET t == TrimStart(s)
        neg == t # <<>> /\ Head(t) = "-"
        u == IF t # <<>> /\ Head(t) \in {"-", "+"} THEN Tail(t) ELSE t
        d == DigitsPrefix(u, FALSE, 0)
    IN IF d.seen THEN Num(IF neg THEN 0 - d.val ELSE d.val) ELSE NaN

\* parseInt(v): v is a query string, or the number a destructuring default gave.
parseInt(v) ==
    IF v.kind = "number" THEN v
    ELSE IF v.kind = "string" THEN ParseNumberPrefix(v.val)
    ELSE NaN

\* parseFloat(v) on strings of digits, signs, spaces and letters (prices are
\* whole numbers of the smallest unit here).
parseFloat(v) ==
    IF v.kind = "number" THEN v
    ELSE IF v.kind = "string" THEN ParseNumberPrefix(v.val)
    ELSE NaN

\* Math.max and Math.min return NaN when an argument is NaN.
MathMax(a, b) ==
    IF a.kind = "NaN" \/ b.kind = "NaN" THEN NaN
    ELSE IF a.val >= b.val THEN a ELSE b

MathMin(a, b) ==
    IF a.kind = "NaN" \/ b.kind = "NaN" THEN NaN
    ELSE IF a.val <= b.val THEN a ELSE b

\* (a - 1) * b
SkipOf(a, b) ==
    IF a.kind = "NaN" \/ b.kind = "NaN" THEN NaN ELSE Num((a.val - 1) * b.val)

FloorDiv(n, d) ==
    IF d.kind = "NaN" THEN NaN
    ELSE Num(n \div d.val)

\* Math.ceil(n / d) for n >= 0: NaN for a NaN divisor, and n / 0 is Infinity
\* (0 / 0 is NaN), which no listing reaches since limitNum >= 1 when a number.
CeilDiv(n, d) ==
    IF d.kind = "NaN" THEN NaN
    ELSE Num((n + d.val - 1) \div d.val)

\* a < b on numbers: false when either is NaN.
NumLess(a, b) == a.kind = "number" /\ b.kind = "number" /\ a.val < b.val

\* const { page = 1 } = req.query: the default applies to undefined only.
WithDefault(v, d) == IF v.kind = "undefined" THEN d ELSE v

\* --------------------------------------------------------------- responses

\* An HTTP response: the status, the body's message, its itemized errors, how
\* the body carries the underlying error ("absent": no such field, "message":
\* error.message, "suppressed": the empty object) and the documents returned.
Response(status, message, errors, detail, products) ==
    [status |-> status, message |-> message, errors |-> errors,
     detail |-> detail, products |-> products]

NoRequest == [method |-> "NONE"]
NoResponse == Response(0, "", <<>>, "absent", <<>>)

\* --------------------------------------------------- middleware/auth.js

\* const apiKey = req.headers['x-api-key'] || req.headers['authorization']
ApiKeyOf(headers) ==
    IF Truthy(headers.xApiKey) THEN headers.xApiKey ELSE headers.authorization

authenticateSkipsCompare(headers) ==
    IF ~Truthy(ApiKeyOf(headers)) THEN 401 ELSE 0

\* 0 stands for next(); otherwise the status of the rejection.
authenticate(headers) ==
    IF ~Truthy(ApiKeyOf(headers)) THEN 401
    ELSE IF ApiKeyOf(headers) # Str(validApiKey) THEN 403
    ELSE 0

AuthResponse(status) ==
    IF status = 401
    THEN Response(401, "Access denied. No API key provided.", <<>>, "absent", <<>>)
    ELSE Response(403, "Invalid API key.", <<>>, "absent", <<>>)

\* ----------------------------------------------- middleware/validation.js

\* !v || typeof v !== 'string' || v.trim().length === 0
TextInvalid(v) ==
    \/ ~Truthy(v)
    \/ v.kind # "string"
    \/ Len(Trim(v.val)) = 0

PriceErrorsNoSignCheck(price) ==
    IF price.kind \in {"undefined", "null"} THEN <<"Price is required">>
    ELSE IF price.kind # "number" THEN <<"Price must be a positive number">>
    ELSE <<>>

PriceErrors(price) ==
    IF price.kind \in {"undefined", "null"} THEN <<"Price is required">>
    ELSE IF price.kind # "number" \/ price.val < 0
         THEN <<"Price must be a positive number">>
    ELSE <<>>

ValidationErrors(body) ==
    (IF TextInvalid(body.name)
     THEN <<"Name is required and must be a non-empty string">> ELSE <<>>)
    \o (IF TextInvalid(body.description)
        THEN <<"Description is required and must be a non-empty string">> ELSE <<>>)
    \o PriceErrors(body.price)
    \o (IF TextInvalid(body.category)
        THEN <<"Category is required and must be a non-empty string">> ELSE <<>>)
    \o (IF body.inStock.kind # "undefined" /\ body.inStock.kind # "boolean"
        THEN <<"inStock must be a boolean value">> ELSE <<>>)

\* if (name) req.body.name = name.trim(), and so on: the body handed to next().
TrimmedBody(body) ==
    [body EXCEPT !.name = Str(Trim(body.name.val)),
                 !.description = Str(Trim(body.description.val)),
                 !.category = Str(Trim(body.category.val))]

\* ------------------------------------------------- store calls (Mongoose)

\* new Product({...}).save(): the document stored for a validated body.
NewDocument(body) ==
    [name |-> body.name.val, description |-> body.description.val,
     price |-> body.price.val, category |-> body.category.val,
     inStock |-> IF body.inStock.kind # "undefined" THEN body.inStock.val ELSE TRUE]

EmptyStore == [i \in {} |-> Null]

Insert(st, id, doc) == [i \in DOMAIN st \cup {id} |-> IF i = id THEN doc ELSE st[i]]

Remove(st, id) == [i \in DOMAIN st \ {id} |-> st[i]]

\* findByIdAndUpdate(id, body): the fields the body supplies are $set, the
\* others are kept.
UpdatedDocument(doc, body) ==
    [name |-> IF body.name.kind # "undefined" THEN body.name.val ELSE doc.name,
     description |-> IF body.description.kind # "undefined"
                     THEN body.description.val ELSE doc.description,
     price |-> IF body.price.kind # "undefined" THEN body.price.val ELSE doc.price,
     category |-> IF body.category.kind # "undefined"
                  THEN body.category.val ELSE doc.category,
     inStock |-> IF body.inStock.kind # "undefined"
                 THEN body.inStock.val ELSE doc.inStock]

\* A store call throws when the id cannot be cast (CastError) or when the
\* store itself fails (fail: an unclassified error).
StoreThrows(id, fail) == fail \/ ~CastsToObjectId(id)

\* The document as a response carries it: with its _id.
WithId(id, doc) ==
    [id |-> id, name |-> doc.name, description |-> doc.description,
     price |-> doc.price, category |-> doc.category, inStock |-> doc.inStock]

\* What a handler leaves behind: the response and the store.
Outcome(response, st, nid) == [res |-> response, store |-> st, nextId |-> nid]

\* --------------------------------------- routes/productRoutes.js: GET /:id

GetProductById(st, nid, id, fail) ==
    IF StoreThrows(id, fail)
    THEN Outcome(Response(404, "Product Not Found", <<>>, "absent", <<>>), st, nid)
    ELSE IF id \notin DOMAIN st
    THEN Outcome(Response(404, "Product not found", <<>>, "absent", <<>>), st, nid)
    ELSE Outcome(Response(200, "", <<>>, "absent", <<WithId(id, st[id])>>), st, nid)

\* ------------------------------------------ routes/productRoutes.js: POST /

CreateProduct(st, nid, headers, body, fail) ==
    IF authenticate(headers) # 0
    THEN Outcome(AuthResponse(authenticate(headers)), st, nid)
    ELSE IF ValidationErrors(body) # <<>>
    THEN Outcome(Response(400, "Validation failed", ValidationErrors(body),
                          "absent", <<>>), st, nid)
    ELSE IF fail
    THEN Outcome(Response(500, "Creating New Product was unsuccessful!", <<>>,
                          "absent", <<>>), st, nid)
    ELSE Outcome(Response(201, "Product created successfully", <<>>, "absent",
                          <<WithId(IdSeq[nid], NewDocument(TrimmedBody(body)))>>),
                 Insert(st, IdSeq[nid], NewDocument(TrimmedBody(body))), nid + 1)

\* ---------------------------------------- routes/productRoutes.js: PUT /:id

UpdateProductUpserts(st, nid, headers, id, body, fail) ==
    IF authenticate(headers) # 0
    THEN Outcome(AuthResponse(authenticate(headers)), st, nid)
    ELSE IF ValidationErrors(body) # <<>>
    THEN Outcome(Response(400, "Validation failed", ValidationErrors(body),
                          "absent", <<>>), st, nid)
    ELSE IF StoreThrows(id, fail)
    THEN Outcome(Response(500, "Internal server error", <<>>, "absent", <<>>), st, nid)
    ELSE Outcome(Response(200, "Product updated successfully", <<>>, "absent",
                          <<WithId(id, NewDocument(TrimmedBody(body)))>>),
                 Insert(st, id, NewDocument(TrimmedBody(body))), nid)

UpdateProduct(st, nid, headers, id, body, fail) ==
    IF authenticate(headers) # 0
    THEN Outcome(AuthResponse(authenticate(headers)), st, nid)
    ELSE IF ValidationErrors(body) # <<>>
    THEN Outcome(Response(400, "Validation failed", ValidationErrors(body),
                          "absent", <<>>), st, nid)
    ELSE IF StoreThrows(id, fail)
    THEN Outcome(Response(500, "Internal server error", <<>>, "absent", <<>>), st, nid)
    ELSE IF id \notin DOMAIN st
    THEN Outcome(Response(404, "Product not found", <<>>, "absent", <<>>), st, nid)
    ELSE Outcome(Response(200, "Product updated successfully", <<>>, "absent",
                          <<WithId(id, UpdatedDocument(st[id], TrimmedBody(body)))>>),
                 Insert(st, id, UpdatedDocument(st[id], TrimmedBody(body))), nid)

\* ------------------------------------- routes/productRoutes.js: DELETE /:id

DeleteProduct(st, nid, headers, id, fail) ==
    IF authenticate(headers) # 0
    THEN Outcome(AuthResponse(authenticate(headers)), st, nid)
    ELSE IF StoreThrows(id, fail)
    THEN Outcome(Response(500, "Internal server error", <<>>, "absent", <<>>), st, nid)
    ELSE IF id \notin DOMAIN st
    THEN Outcome(Response(404, "Product not found", <<>>, "absent", <<>>), st, nid)
    ELSE Outcome(Response(200, "Product deleted successfully", <<>>, "absent",
                          <<WithId(id, st[id])>>), Remove(st, id), nid)

\* ------------------------------------------ routes/productRoutes.js: GET /

\* limit = 10 (the destructuring default) and the cap of Math.min(..., 100)
DefaultLimit == 10
MaxLimit == 100

\* const pageNum = Math.max(1, parseInt(page))
PageNum(page) == MathMax(Num(1), parseInt(WithDefault(page, Num(1))))

\* const limitNum = Math.max(1, Math.min(parseInt(limit), 100))
LimitNum(limit) ==
    MathMax(Num(1), MathMin(parseInt(WithDefault(limit, Num(DefaultLimit))),
                            Num(MaxLimit)))

UpperCase == <<"A", "B", "C", "D", "E", "F", "G", "H", "I", "J", "K", "L", "M",
               "N", "O", "P", "Q", "R", "S", "T", "U", "V", "W", "X", "Y", "Z">>
LowerCase == <<"a", "b", "c", "d", "e", "f", "g", "h", "i", "j", "k", "l", "m",
               "n", "o", "p", "q", "r", "s", "t", "u", "v", "w", "x", "y", "z">>
ToLower(c) ==
    IF \E i \in 1..26 : UpperCase[i] = c
    THEN LowerCase[CHOOSE i \in 1..26 : UpperCase[i] = c]
    ELSE c

\* new RegExp(`^${pattern}$`, 'i').test(s), for patterns of literal characters
\* and the wildcard "." (the pattern is not escaped).
RECURSIVE RegexMatchesWhole(_, _)
RegexMatchesWhole(pattern, s) ==
    IF pattern = <<>> THEN s = <<>>
    ELSE /\ s # <<>>
         /\ Head(pattern) = "." \/ ToLower(Head(pattern)) = ToLower(Head(s))
         /\ RegexMatchesWhole(Tail(pattern), Tail(s))

TrueString == <<"t", "r", "u", "e">>

\* The filter object built from the query: a part is undefined when not set.
BuildFilter(q) ==
    [category |-> IF Truthy(q.category) /\ Trim(q.category.val) # <<>>
                  THEN Str(Trim(q.category.val)) ELSE Undef,
     inStock |-> IF q.inStock.kind # "undefined"
                 THEN Bool(q.inStock = Str(TrueString)) ELSE Undef,
     gte |-> IF Truthy(q.minPrice) THEN parseFloat(q.minPrice) ELSE Undef,
     lte |-> IF Truthy(q.maxPrice) THEN parseFloat(q.maxPrice) ELSE Undef]

\* Whether a document matches the filter; a comparison with NaN is false.
Matches(doc, f) ==
    /\ f.category.kind = "undefined" \/ RegexMatchesWhole(f.category.val, doc.category)
    /\ f.inStock.kind = "undefined" \/ doc.inStock = f.inStock.val
    /\ f.gte.kind = "undefined" \/ (f.gte.kind = "number" /\ doc.price >= f.gte.val)
    /\ f.lte.kind = "undefined" \/ (f.lte.kind = "number" /\ doc.price <= f.lte.val)

\* The store is handed a NaN in the filter, or as skip or limit. What it does
\* with it is the store's: under "throw" the call fails (a cast error), under
\* "lenient" a comparison with NaN matches nothing and a NaN skip or limit is
\* taken as none.
NaNPolicies == {"throw", "lenient"}

HasNaN(f, skip, limitNum) ==
    \/ f.gte.kind = "NaN"
    \/ f.lte.kind = "NaN"
    \/ skip.kind = "NaN"
    \/ limitNum.kind = "NaN"

\* Code points, in order, of the characters compared when sorting.
CharOrder == <<" ">> \o Digits \o UpperCase \o LowerCase
CharCode(c) == CHOOSE i \in 1..Len(CharOrder) : CharOrder[i] = c

RECURSIVE StringLess(_, _)
StringLess(a, b) ==
    IF b = <<>> THEN FALSE
    ELSE IF a = <<>> THEN TRUE
    ELSE IF Head(a) = Head(b) THEN StringLess(Tail(a), Tail(b))
    ELSE CharCode(Head(a)) < CharCode(Head(b))

\* Whether document a sorts strictly before b by the field, ascending.
FieldLess(a, b, fld) ==
    CASE fld = <<"n", "a", "m", "e">> -> StringLess(a.name, b.name)
      [] fld = <<"p", "r", "i", "c", "e">> -> a.price < b.price
      [] fld = <<"c", "a", "t", "e", "g", "o", "r", "y">> -> StringLess(a.category, b.category)
      [] OTHER -> FALSE

\* The store's natural order: the order of insertion, which is that of IdSeq.
IdIndex(id) == CHOOSE n \in 1..(MaxIds + 1) : IdSeq[n] = id

\* sort is "" (no sorting), a field, or a field after "-" (descending).
SortField(sort) == IF sort # <<>> /\ Head(sort) = "-" THEN Tail(sort) ELSE sort
SortDescending(sort) == sort # <<>> /\ Head(sort) = "-"

\* Whether id a comes before id b in the sorted result; ties keep natural order.
Before(st, a, b, sort) ==
    LET lessAB == IF SortDescending(sort)
                  THEN FieldLess(st[b], st[a], SortField(sort))
                  ELSE FieldLess(st[a], st[b], SortField(sort))
        lessBA == IF SortDescending(sort)
                  THEN FieldLess(st[a], st[b], SortField(sort))
                  ELSE FieldLess(st[b], st[a], SortField(sort))
    IN lessAB \/ (~lessBA /\ IdIndex(a) < IdIndex(b))

\* The ids of `ids`, sorted.
RECURSIVE SortedIds(_, _, _)
SortedIds(st, ids, sort) ==
    IF ids = {} THEN <<>>
    ELSE LET first == CHOOSE a \in ids : \A b \in ids \ {a} : Before(st, a, b, sort)
         IN <<first>> \o SortedIds(st, ids \ {first}, sort)

\* Product.find(filter).sort(...): the matching documents, in order.
FindSorted(st, f, sort) ==
    LET ids == SortedIds(st, {i \in DOMAIN st : Matches(st[i], f)}, sort)
    IN [k \in 1..Len(ids) |-> WithId(ids[k], st[ids[k]])]

WindowLimitThenSkip(docs, skip, limitNum) ==
    LET from == IF skip.kind = "number" THEN skip.val ELSE 0
        upto == IF limitNum.kind = "number" /\ limitNum.val < Len(docs)
                THEN limitNum.val ELSE Len(docs)
    IN SubSeq(docs, from + 1, upto)

\* .skip(skip).limit(limitNum) of a sequence; NaN (lenient store) is none.
Window(docs, skip, limitNum) ==
    LET from == IF skip.kind = "number" THEN skip.val ELSE 0
        upto == IF limitNum.kind = "number" THEN from + limitNum.val ELSE Len(docs)
    IN SubSeq(docs, from + 1, IF upto < Len(docs) THEN upto ELSE Len(docs))

\* Product.countDocuments(filter)
CountDocuments(st, f) == Cardinality({i \in DOMAIN st : Matches(st[i], f)})

\* The handler's locals pageNum, limitNum and skip.
QueryLocals(q) ==
    [pageNum |-> PageNum(q.page), limitNum |-> LimitNum(q.limit),
     skip |-> SkipOf(PageNum(q.page), LimitNum(q.limit))]

\* The pagination object of the response.
Pagination(pageNum, limitNum, total) ==
    LET totalPages == CeilDiv(total, limitNum)
    IN [currentPage |-> pageNum, totalPages |-> totalPages, totalProducts |-> total,
        productsPerPage |-> limitNum,
        hasNext |-> NumLess(pageNum, totalPages),
        hasPrev |-> NumLess(Num(1), pageNum),
        nextPage |-> IF NumLess(pageNum, totalPages) THEN Num(pageNum.val + 1) ELSE Null,
        prevPage |-> IF NumLess(Num(1), pageNum) THEN Num(pageNum.val - 1) ELSE Null]

ListResponse(status, message, detail, products, pagination, locals) ==
    [status |-> status, message |-> message, errors |-> <<>>, detail |-> detail,
     products |-> products, pagination |-> pagination, locals |-> locals]

ListProducts(st, nid, q, fail, nanPolicy) ==
    LET f == BuildFilter(q)
        l == QueryLocals(q)
        sort == WithDefault(q.sort, Str(<<"n", "a", "m", "e">>)).val
    IN IF fail \/ (nanPolicy = "throw" /\ HasNaN(f, l.skip, l.limitNum))
       THEN Outcome(ListResponse(500, "Internal server error", "message", <<>>,
                                 Null, l), st, nid)
       ELSE Outcome(ListResponse(200, "", "absent",
                                 Window(FindSorted(st, f, sort), l.skip, l.limitNum),
                                 Pagination(l.pageNum, l.limitNum, CountDocuments(st, f)),
                                 l), st, nid)

\* ------------------------------------- routes/productRoutes.js: GET /search

\* Whether the pattern (literal characters and ".") matches a prefix of s,
\* ignoring case.
RECURSIVE RegexMatchesPrefix(_, _)
RegexMatchesPrefix(pattern, s) ==
    IF pattern = <<>> THEN TRUE
    ELSE /\ s # <<>>
         /\ Head(pattern) = "." \/ ToLower(Head(pattern)) = ToLower(Head(s))
         /\ RegexMatchesPrefix(Tail(pattern), Tail(s))

\* { $regex: pattern, $options: 'i' }: the pattern matches somewhere in s.
RegexFinds(pattern, s) ==
    \E k \in 1..(Len(s) + 1) : RegexMatchesPrefix(pattern, SubSeq(s, k, Len(s)))

\* The $or of the three fields.
SearchMatches(doc, term) ==
    \/ RegexFinds(term, doc.name)
    \/ RegexFinds(term, doc.description)
    \/ RegexFinds(term, doc.category)

\* const limitNum = Math.max(1, parseInt(limit)), with limit = 10 by default
SearchLimitNum(limit) == MathMax(Num(1), parseInt(WithDefault(limit, Num(DefaultLimit))))

SearchLocals(q) ==
    [pageNum |-> PageNum(q.page), limitNum |-> SearchLimitNum(q.limit),
     skip |-> SkipOf(PageNum(q.page), SearchLimitNum(q.limit))]

\* Product.find(searchFilter).sort({ name: 1 })
SearchSorted(st, term) ==
    LET ids == SortedIds(st, {i \in DOMAIN st : SearchMatches(st[i], term)},
                         <<"n", "a", "m", "e">>)
    IN [k \in 1..Len(ids) |-> WithId(ids[k], st[ids[k]])]

\* The search object of the response.
SearchInfo(term, pageNum, limitNum, total) ==
    [query |-> term, totalResults |-> total, currentPage |-> pageNum,
     totalPages |-> CeilDiv(total, limitNum),
     hasNext |-> NumLess(pageNum, CeilDiv(total, limitNum)),
     hasPrev |-> NumLess(Num(1), pageNum)]

SearchResponse(status, message, detail, products, search, locals, queried) ==
    [status |-> status, message |-> message, errors |-> <<>>, detail |-> detail,
     products |-> products, search |-> search, locals |-> locals,
     queried |-> queried]

\* queried: whether a store query was issued.
SearchProducts(st, nid, q, fail, nanPolicy) ==
    IF ~Truthy(q.q) \/ Trim(q.q.val) = <<>>
    THEN Outcome(SearchResponse(400, "Search query 'q' is required", "absent", <<>>,
                                Null, Null, FALSE), st, nid)
    ELSE LET term == Trim(q.q.val)
             l == SearchLocals(q)
             total == Cardinality({i \in DOMAIN st : SearchMatches(st[i], term)})
         IN IF fail \/ (nanPolicy = "throw"
                        /\ (l.skip.kind = "NaN" \/ l.limitNum.kind = "NaN"))
            THEN Outcome(SearchResponse(500, "Search failed", "message", <<>>,
                                        Null, l, TRUE), st, nid)
            ELSE Outcome(SearchResponse(200, "", "absent",
                                        Window(SearchSorted(st, term), l.skip, l.limitNum),
                                        SearchInfo(term, l.pageNum, l.limitNum, total),
                                        l, TRUE), st, nid)

\* -------------------------------------- routes/productRoutes.js: GET /stats

\* The sum over the ids of the price (fld = "price") or of 1.
RECURSIVE SumOver(_, _, _)
SumOver(st, ids, fld) ==
    IF ids = {} THEN 0
    ELSE LET i == CHOOSE j \in ids : TRUE
         IN (IF fld = "price" THEN st[i].price ELSE 1) + SumOver(st, ids \ {i}, fld)

MinPrice(st, ids) == CHOOSE m \in {st[i].price : i \in ids} :
                        \A i \in ids : m <= st[i].price
MaxPrice(st, ids) == CHOOSE m \in {st[i].price : i \in ids} :
                        \A i \in ids : m >= st[i].price

\* n / d rounded to the nearest whole number, halves up, for n >= 0 and d > 0:
\* the values here are in hundredths, so this rounds to 2 decimal places.
RoundDiv(n, d) == (2 * n + d) \div (2 * d)

\* n / d rounded to the nearest whole number, halves to the even one ($round).
RoundHalfEvenDiv(n, d) ==
    LET q == n \div d
        r == n % d
    IN IF 2 * r < d THEN q
       ELSE IF 2 * r > d THEN q + 1
       ELSE IF q % 2 = 0 THEN q ELSE q + 1

\* One $group result of the category pipeline, after $project. averagePrice
\* and inStockPercentage are in hundredths.
CategoryStat(st, cat) ==
    LET ids == {i \in DOMAIN st : st[i].category = cat}
        inS == {i \in ids : st[i].inStock = TRUE}
        outS == {i \in ids : st[i].inStock = FALSE}
    IN [category |-> cat, count |-> Cardinality(ids),
        averagePrice |-> RoundHalfEvenDiv(100 * SumOver(st, ids, "price"),
                                          Cardinality(ids)),
        totalValue |-> SumOver(st, ids, "price"),
        minPrice |-> MinPrice(st, ids), maxPrice |-> MaxPrice(st, ids),
        inStockCount |-> Cardinality(inS), outOfStockCount |-> Cardinality(outS),
        inStockPercentage |-> RoundHalfEvenDiv(10000 * Cardinality(inS),
                                               Cardinality(ids))]

\* Whether category a comes before b under $sort: { count: -1 }; categories of
\* equal count are put in the order of their names.
StatBefore(st, a, b) ==
    \/ CategoryStat(st, a).count > CategoryStat(st, b).count
    \/ CategoryStat(st, a).count = CategoryStat(st, b).count /\ StringLess(a, b)

RECURSIVE SortedCategories(_, _)
SortedCategories(st, cats) ==
    IF cats = {} THEN <<>>
    ELSE LET first == CHOOSE a \in cats : \A b \in cats \ {a} : StatBefore(st, a, b)
         IN <<first>> \o SortedCategories(st, cats \ {first})

\* $group by category, $sort by count, $project: one entry per category.
GroupByCategory(st) ==
    LET cats == SortedCategories(st, {st[i].category : i \in DOMAIN st})
    IN [k \in 1..Len(cats) |-> CategoryStat(st, cats[k])]

CategoryStatsOfInStockOnly(st) ==
    GroupByCategory([i \in {j \in DOMAIN st : st[j].inStock} |-> st[i]])

\* Product.aggregate([...]) of the category pipeline, over the whole collection.
CategoryStats(st) == GroupByCategory(st)

PriceStatsOfEmptyGroup(st) ==
    <<[averagePrice |-> 0,
       minPrice |-> 0, maxPrice |-> 0,
       totalInventoryValue |-> SumOver(st, DOMAIN st, "price")]>>

\* Product.aggregate([ $group _id: null ]): empty for an empty collection.
PriceStats(st) ==
    IF DOMAIN st = {} THEN <<>>
    ELSE <<[averagePrice |-> RoundDiv(100 * SumOver(st, DOMAIN st, "price"),
                                      Cardinality(DOMAIN st)),
            minPrice |-> MinPrice(st, DOMAIN st), maxPrice |-> MaxPrice(st, DOMAIN st),
            totalInventoryValue |-> SumOver(st, DOMAIN st, "price")]>>

\* The sum of count over the entries of a categories list.
RECURSIVE SumCounts(_)
SumCounts(cs) == IF cs = <<>> THEN 0 ELSE Head(cs).count + SumCounts(Tail(cs))

\* The handler's locals before its first store call.
StatsIdle ==
    [pc |-> "idle", totalProducts |-> 0, inStockCount |-> 0, outOfStockCount |-> 0,
     categoryStats |-> <<>>, response |-> Null]

\* The 200 response assembled from the locals and the price aggregate.
\* inStockPercentage is the toFixed(2) string (kind "fixed", in hundredths) or
\* the number 0; priceStatistics is the one-entry list of the object, or empty
\* for {}.
StatsResponse(l, priceStats) ==
    [status |-> 200, message |-> "", detail |-> "absent",
     summary |-> [totalProducts |-> l.totalProducts, inStock |-> l.inStockCount,
                  outOfStock |-> l.outOfStockCount,
                  inStockPercentage |->
                      IF l.totalProducts > 0
                      THEN [kind |-> "fixed",
                            val |-> RoundDiv(10000 * l.inStockCount, l.totalProducts)]
                      ELSE Num(0)],
     priceStatistics |-> priceStats,
     categories |-> l.categoryStats]

StatsFailure ==
    [status |-> 500, message |-> "Failed to get statistics", detail |-> "message"]

\* --------------------------------------------------- middleware/errorHandler

\* The global error handler, by the error's name or code.
errorHandler(err, prod) ==
    IF err = "ValidationError"
    THEN Response(400, "Validation Error", <<"schema">>, "absent", <<>>)
    ELSE IF err = "DuplicateKey"
    THEN Response(400, "Duplicate field value entered", <<>>, "absent", <<>>)
    ELSE IF err = "CastError"
    THEN Response(400, "Invalid ID format", <<>>, "absent", <<>>)
    ELSE Response(500, "Something went wrong!", <<>>,
                  IF prod THEN "suppressed" ELSE "message", <<>>)

\* ------------------------------------------------------------------ requests

Headers(x, a) == [xApiKey |-> x, authorization |-> a]
Body(name, description, price, category, inStock) ==
    [name |-> name, description |-> description, price |-> price,
     category |-> category, inStock |-> inStock]
Query(category, inStock, minPrice, maxPrice, page, limit, sort) ==
    [category |-> category, inStock |-> inStock, minPrice |-> minPrice,
     maxPrice |-> maxPrice, page |-> page, limit |-> limit, sort |-> sort]
SearchQuery(q, page, limit) == [q |-> q, page |-> page, limit |-> limit]

\* ------------------------------------------------------------------- actions

Apply(o) ==
    /\ res' = o.res
    /\ store' = o.store
    /\ nextId' = o.nextId

Init ==
    /\ store = EmptyStore
    /\ nextId = 1
    /\ production \in BOOLEAN
    /\ req = NoRequest
    /\ res = NoResponse
    /\ stats = StatsIdle

\* GET /:id
Get(ids, fails) ==
    \E id \in ids, fail \in fails :
        /\ req' = [method |-> "GET /:id", id |-> id, fail |-> fail]
        /\ Apply(GetProductById(store, nextId, id, fail))
        /\ UNCHANGED <<production, stats>>

\* POST /
Post(hs, bodies, fails) ==
    \E h \in hs, b \in bodies, fail \in fails :
        /\ nextId <= MaxIds
        /\ req' = [method |-> "POST /", headers |-> h, body |-> b, fail |-> fail]
        /\ Apply(CreateProduct(store, nextId, h, b, fail))
        /\ UNCHANGED <<production, stats>>

\* PUT /:id
Put(hs, ids, bodies, fails) ==
    \E h \in hs, id \in ids, b \in bodies, fail \in fails :
        /\ req' = [method |-> "PUT /:id", headers |-> h, id |-> id, body |-> b,
                   fail |-> fail]
        /\ Apply(UpdateProduct(store, nextId, h, id, b, fail))
        /\ UNCHANGED <<production, stats>>

\* DELETE /:id
Delete(hs, ids, fails) ==
    \E h \in hs, id \in ids, fail \in fails :
        /\ req' = [method |-> "DELETE /:id", headers |-> h, id |-> id, fail |-> fail]
        /\ Apply(DeleteProduct(store, nextId, h, id, fail))
        /\ UNCHANGED <<production, stats>>

\* GET /
List(queries, fails, policies) ==
    \E q \in queries, fail \in fails, pol \in policies :
        /\ req' = [method |-> "GET /", query |-> q, fail |-> fail, nanPolicy |-> pol]
        /\ Apply(ListProducts(store, nextId, q, fail, pol))
        /\ UNCHANGED <<production, stats>>

\* GET /search
Search(queries, fails, policies) ==
    \E q \in queries, fail \in fails, pol \in policies :
        /\ req' = [method |-> "GET /search", query |-> q, fail |-> fail,
                   nanPolicy |-> pol]
        /\ Apply(SearchProducts(store, nextId, q, fail, pol))
        /\ UNCHANGED <<production, stats>>

\* A request whose JSON body bodyParser.json() cannot parse: the error goes to
\* the global error handler, before any route.
MalformedJson(methods) ==
    \E m \in methods :
        /\ req' = [method |-> m, malformedJson |-> TRUE]
        /\ res' = errorHandler("SyntaxError", production)
        /\ UNCHANGED <<store, nextId, production, stats>>

\* GET /stats, one store call at a time: other requests are handled between
\* the awaits. A failing store call ends the handler with the 500 of its catch.
StatsFail ==
    /\ stats.pc \in {"idle", "done", "total", "inStock", "outOfStock", "categories"}
    /\ stats' = [StatsIdle EXCEPT !.pc = "done", !.response = StatsFailure]
    /\ UNCHANGED <<store, nextId, production, req, res>>

\* const totalProducts = await Product.countDocuments()
StatsCountTotal ==
    /\ stats.pc \in {"idle", "done"}
    /\ stats' = [StatsIdle EXCEPT !.pc = "total",
                                  !.totalProducts = Cardinality(DOMAIN store)]
    /\ UNCHANGED <<store, nextId, production, req, res>>

\* const inStockCount = await Product.countDocuments({ inStock: true })
StatsCountInStock ==
    /\ stats.pc = "total"
    /\ stats' = [stats EXCEPT !.pc = "inStock",
                   !.inStockCount = Cardinality({i \in DOMAIN store : store[i].inStock = TRUE})]
    /\ UNCHANGED <<store, nextId, production, req, res>>

\* const outOfStockCount = await Product.countDocuments({ inStock: false })
StatsCountOutOfStock ==
    /\ stats.pc = "inStock"
    /\ stats' = [stats EXCEPT !.pc = "outOfStock",
                   !.outOfStockCount = Cardinality({i \in DOMAIN store : store[i].inStock = FALSE})]
    /\ UNCHANGED <<store, nextId, production, req, res>>

\* const categoryStats = await Product.aggregate([...])
StatsAggregateCategories ==
    /\ stats.pc = "outOfStock"
    /\ stats' = [stats EXCEPT !.pc = "categories", !.categoryStats = CategoryStats(store)]
    /\ UNCHANGED <<store, nextId, production, req, res>>

\* const priceStats = await Product.aggregate([...]); res.status(200).json(...)
StatsRespond ==
    /\ stats.pc = "categories"
    /\ stats' = [stats EXCEPT !.pc = "done",
                              !.response = StatsResponse(stats, PriceStats(store))]
    /\ UNCHANGED <<store, nextId, production, req, res>>

StatsStep ==
    \/ StatsCountTotal
    \/ StatsCountInStock
    \/ StatsCountOutOfStock
    \/ StatsAggregateCategories
    \/ StatsRespond

\* ------------------------------------------------- request inputs

KeyGood == Str(validApiKey)
KeyBad == Str(<<"K", "2">>)
KeyEmpty == Str(<<>>)
Authorized == Headers(KeyGood, Undef)
NoKey == Headers(Undef, Undef)
AllHeaders == {Headers(x, a) : x \in {Undef, KeyEmpty, KeyBad, KeyGood},
                               a \in {Undef, KeyEmpty, KeyBad, KeyGood}}

TextA == Str(<<" ", "a", " ">>)
TextD == Str(<<"d">>)
TextBlank == Str(<<" ", " ">>)
CatX == Str(<<"x">>)
CatY == Str(<<"y">>)

ValidBodies == {Body(TextA, TextD, Num(p), CatX, s) : p \in {0, 7}, s \in {Undef, Bool(FALSE)}}
\* The README's update: only price and inStock.
PartialBody == Body(Undef, Undef, Num(7), Undef, Bool(FALSE))
InvalidBodies ==
    {PartialBody,
     Body(TextA, TextD, Num(0 - 5), CatX, Undef),
     Body(TextA, TextD, Undef, CatX, Undef),
     Body(TextA, TextD, Null, CatX, Bool(TRUE)),
     Body(TextBlank, TextD, Num(7), CatX, Undef),
     Body(TextA, Undef, Num(7), TextBlank, Undef),
     Body(TextA, TextD, Num(7), CatX, Str(<<"n", "o">>)),
     Body(Num(3), TextD, Str(<<"7">>), CatX, Undef)}
CrudBodies == ValidBodies \cup InvalidBodies
StatsBodies ==
    {Body(TextA, TextD, Num(7), CatX, Undef), Body(TextA, TextD, Num(0), CatX, Bool(FALSE)),
     Body(TextA, TextD, Num(7), CatY, Undef)}

RequestIds == ObjectIds \cup {MalformedId}

QAbc == Str(<<"a", "b", "c">>)
Q(n) == Str(<<DigitChar(n)>>)
PlainQuery(minPrice, maxPrice, page, limit) ==
    Query(Undef, Undef, minPrice, maxPrice, page, limit, Undef)
PriceQueries ==
    {PlainQuery(lo, hi, Undef, Undef) :
        lo \in {Undef, KeyEmpty, QAbc, Q(0), Q(7)}, hi \in {Undef, QAbc, Q(7), Q(3)}}
PageQueries ==
    {PlainQuery(Undef, Undef, pg, Undef) :
        pg \in {QAbc, KeyEmpty, Q(0), Q(1), Q(2), Str(<<"-", "1">>), Str(<<" ", "2", "x">>)}}
    \cup {PlainQuery(Undef, Undef, pg, lim) :
        pg \in {Undef, Q(2)},
        lim \in {QAbc, KeyEmpty, Q(0), Q(1), Str(<<"-", "3">>),
                 Str(<<"1", "0", "0">>), Str(<<"1", "0", "1">>),
                 Str(<<"2", "5", "0">>), Str(<<"2", "x">>)}}
SearchQueries ==
    {SearchQuery(q, Undef, lim) :
        q \in {Undef, TextBlank, TextA, Str(<<"X">>)}, lim \in {Undef, QAbc, Q(1)}}

\* ------------------------------------------------------------ specifications

OneBody == Body(TextA, TextD, Num(7), CatX, Undef)
OtherBody == Body(TextA, TextD, Num(0), CatY, Bool(FALSE))

\* The input sets of the specifications.
FirstId == IdSeq[1]
Failing == {FALSE, TRUE}
NotFailing == {FALSE}
OnlyThrow == {"throw"}
JustAuthorized == {Authorized}
WithOrWithoutKey == {Authorized, NoKey}
FirstOrMalformedId == {FirstId, MalformedId}
JustFirstId == {FirstId}
DefaultQueries == {PlainQuery(Undef, Undef, Undef, Undef)}
OneOrPartialBody == {OneBody, PartialBody}
OtherOrPartialBody == {OtherBody, PartialBody}
JustOneBody == {OneBody}
JustOtherBody == {OtherBody}
ListQueries == PriceQueries \cup PageQueries
JsonMethods == {"POST /", "PUT /:id"}

\* Every endpoint, with few inputs each.
Next ==
    \/ List(DefaultQueries, Failing, OnlyThrow)
    \/ Search(SearchQueries, Failing, OnlyThrow)
    \/ Get(FirstOrMalformedId, Failing)
    \/ Post(JustAuthorized, OneOrPartialBody, Failing)
    \/ Put(JustAuthorized, FirstOrMalformedId, JustOtherBody, Failing)
    \/ Delete(WithOrWithoutKey, JustFirstId, Failing)
    \/ MalformedJson(JsonMethods)
    \/ StatsStep
    \/ StatsFail

Spec == Init /\ [][Next]_vars

\* The create, read, update and delete routes.
NextCrud ==
    \/ Get(RequestIds, Failing)
    \/ Post(JustAuthorized, CrudBodies, NotFailing)
    \/ Post(WithOrWithoutKey, JustOneBody, Failing)
    \/ Put(JustAuthorized, RequestIds, CrudBodies, NotFailing)
    \/ Put(WithOrWithoutKey, RequestIds, JustOtherBody, Failing)
    \/ Delete(WithOrWithoutKey, RequestIds, Failing)

SpecCrud == Init /\ [][NextCrud]_vars

\* The protected routes under every combination of the two key headers.
NextAuth ==
    \/ Post(AllHeaders, OneOrPartialBody, NotFailing)
    \/ Put(AllHeaders, FirstOrMalformedId, OtherOrPartialBody, NotFailing)
    \/ Delete(AllHeaders, FirstOrMalformedId, NotFailing)

SpecAuth == Init /\ [][NextAuth]_vars

\* The listing over stores that authorized creates and deletes built.
NextList ==
    \/ Post(JustAuthorized, ValidBodies, NotFailing)
    \/ Delete(JustAuthorized, JustFirstId, NotFailing)
    \/ List(ListQueries, Failing, NaNPolicies)

SpecList == Init /\ [][NextList]_vars

\* The statistics handler, with creates and deletes between its awaits.
NextStats ==
    \/ Post(JustAuthorized, StatsBodies, NotFailing)
    \/ Delete(JustAuthorized, JustFirstId, NotFailing)
    \/ StatsStep
    \/ StatsFail

SpecStats == Init /\ [][NextStats]_vars

\* The search with paging parameters, over stores that creates and deletes built.
SearchLimitQueries ==
    {SearchQuery(q, Undef, lim) :
        q \in {Undef, KeyEmpty, TextBlank, TextA, Str(<<"q">>)},
        lim \in {Undef, QAbc, Q(1), Str(<<"1", "0", "0">>), Str(<<"1", "0", "1">>)}}
OneOrOtherBody == {OneBody, OtherBody}

NextSearch ==
    \/ Post(JustAuthorized, OneOrOtherBody, NotFailing)
    \/ Delete(JustAuthorized, JustFirstId, NotFailing)
    \/ Search(SearchLimitQueries, Failing, OnlyThrow)

SpecSearch == Init /\ [][NextSearch]_vars

\* The listing with sort, page and limit, over products that differ in name,
\* price and stock.
PageBodies ==
    {Body(Str(<<"B", "b">>), TextD, Num(7), CatX, Undef),
     Body(Str(<<"a">>), TextD, Num(7), CatX, Bool(FALSE)),
     Body(Str(<<"a">>), TextD, Num(0), CatX, Undef)}
SortPriceDescending == Str(<<"-", "p", "r", "i", "c", "e">>)
SortQueries ==
    {Query(Undef, s, Undef, Undef, pg, lim, srt) :
        s \in {Undef, Str(TrueString)},
        pg \in {Undef, Q(2), Q(3)},
        lim \in {Undef, Q(1), Q(2)},
        srt \in {Undef, KeyEmpty, SortPriceDescending, Str(<<"p", "r", "i", "c", "e">>),
                 Str(<<"-", "n", "a", "m", "e">>)}}

NextPage ==
    \/ Post(JustAuthorized, PageBodies, NotFailing)
    \/ Delete(JustAuthorized, JustFirstId, NotFailing)
    \/ List(SortQueries, Failing, OnlyThrow)

SpecPage == Init /\ [][NextPage]_vars

\* The listing with a category, over products of categories that differ in
\* case and in length.
CategoryBodies ==
    {Body(TextA, TextD, Num(7), c, Undef) :
        c \in {CatX, Str(<<"X", "y">>), Str(<<" ", "x", "y">>)}}
CategoryQueries ==
    {Query(c, Undef, Undef, Undef, Undef, Undef, Undef) :
        c \in {Undef, KeyEmpty, TextBlank, CatX, Str(<<" ", "X", " ">>), Str(<<"x", "Y">>),
               Str(<<".">>), Str(<<"x", ".">>), Str(<<"y">>)}}

NextCategory ==
    \/ Post(JustAuthorized, CategoryBodies, NotFailing)
    \/ Delete(JustAuthorized, JustFirstId, NotFailing)
    \/ List(CategoryQueries, Failing, OnlyThrow)

SpecCategory == Init /\ [][NextCategory]_vars

\* Creates with valid and invalid bodies, with and without the key.
NextCreate ==
    \/ Post(WithOrWithoutKey, CrudBodies, Failing)
    \/ Delete(JustAuthorized, JustFirstId, NotFailing)

SpecCreate == Init /\ [][NextCreate]_vars

\* The listing and the search with page and limit, over stores of up to MaxIds
\* products whose names hold "a".
PagingQueries ==
    {PlainQuery(Undef, Undef, pg, lim) :
        pg \in {Undef, Q(0), Q(2), Q(3), QAbc}, lim \in {Undef, Q(1), Q(2), QAbc}}
PagingSearchQueries ==
    {SearchQuery(TextA, pg, lim) :
        pg \in {Undef, Q(0), Q(2), Q(3), QAbc}, lim \in {Undef, Q(1), Q(2), QAbc}}

NextPaging ==
    \/ Post(JustAuthorized, OneOrOtherBody, NotFailing)
    \/ Delete(JustAuthorized, JustFirstId, NotFailing)
    \/ List(PagingQueries, Failing, NaNPolicies)
    \/ Search(PagingSearchQueries, Failing, NaNPolicies)

SpecPaging == Init /\ [][NextPaging]_vars

\* ===================================================================== claims

IsProtected(r) == r.method \in {"POST /", "PUT /:id", "DELETE /:id"} /\ "headers" \in DOMAIN r
HasId(r) == "id" \in DOMAIN r
Supplied(v) == v.kind # "undefined"

\* ------------------------------------------------------------------------ C1

\* A body that supplies a non-empty subset of the product fields, each with a
\* value of its type.
SuppliesValidSubset(b) ==
    /\ \E f \in {"name", "description", "price", "category", "inStock"} : Supplied(b[f])
    /\ \A f \in {"name", "description", "category"} : Supplied(b[f]) => ~TextInvalid(b[f])
    /\ Supplied(b.price) => b.price.kind = "number" /\ b.price.val >= 0
    /\ Supplied(b.inStock) => b.inStock.kind = "boolean"

\* The document with the supplied fields replaced and the others kept.
Patched(doc, b) ==
    [name |-> IF Supplied(b.name) THEN Trim(b.name.val) ELSE doc.name,
     description |-> IF Supplied(b.description) THEN Trim(b.description.val)
                     ELSE doc.description,
     price |-> IF Supplied(b.price) THEN b.price.val ELSE doc.price,
     category |-> IF Supplied(b.category) THEN Trim(b.category.val) ELSE doc.category,
     inStock |-> IF Supplied(b.inStock) THEN b.inStock.val ELSE doc.inStock]

\* C1: an authenticated PUT /:id of an existing product whose body supplies a
\* non-empty subset of the fields succeeds; the supplied fields take the
\* supplied values and every other field keeps its value.
C1_PartialPatch ==
    [][(/\ req'.method = "PUT /:id"
        /\ HasId(req')
        /\ authenticate(req'.headers) = 0
        /\ ~req'.fail
        /\ req'.id \in DOMAIN store
        /\ SuppliesValidSubset(req'.body))
       => (/\ res'.status = 200
           /\ req'.id \in DOMAIN store'
           /\ store'[req'.id] = Patched(store[req'.id], req'.body))]_vars

\* ------------------------------------------------------------------------ C2

\* C2: every product in the store has price >= 0 and a name, a description and
\* a category that are non-empty after trimming.
C2_StoredProductsValid ==
    \A i \in DOMAIN store :
        /\ store[i].price >= 0
        /\ Trim(store[i].name) # <<>>
        /\ Trim(store[i].description) # <<>>
        /\ Trim(store[i].category) # <<>>

\* An update to price 0 was accepted after a create.
C2_Witness ==
    /\ req.method = "PUT /:id"
    /\ HasId(req)
    /\ res.status = 200
    /\ req.id \in DOMAIN store
    /\ store[req.id].price = 0
    /\ store[req.id].category = <<"y">>

\* ------------------------------------------------------------------------ C3

Rejected(r) == r.status \in {401, 403}

\* C3 as stated: a protected request is admitted if and only if one of the two
\* headers carries exactly the configured secret.
C3_AdmittedIffEitherHeaderCarriesSecret ==
    IsProtected(req) =>
        (~Rejected(res) <=> (\/ req.headers.xApiKey = Str(validApiKey)
                             \/ req.headers.authorization = Str(validApiKey)))

\* The header the key is read from: x-api-key when present and non-empty,
\* otherwise authorization.
KeyRead(h) ==
    IF h.xApiKey.kind = "string" /\ h.xApiKey.val # <<>> THEN h.xApiKey
    ELSE h.authorization

\* C3, amended: the key is read from x-api-key when that header is present and
\* non-empty and from authorization otherwise; the request is admitted if and
\* only if the key read equals the secret, is rejected with 401 when no
\* non-empty key is read and with 403 when the key read differs, and a
\* rejected request leaves the store unchanged.
C3_AdmittedIffKeyReadIsSecret ==
    [][IsProtected(req') =>
        LET k == KeyRead(req'.headers)
        IN IF k.kind = "undefined" \/ k = Str(<<>>)
           THEN res'.status = 401 /\ store' = store /\ nextId' = nextId
           ELSE IF k # Str(validApiKey)
           THEN res'.status = 403 /\ store' = store /\ nextId' = nextId
           ELSE ~Rejected(res')]_vars

\* A create is admitted with the secret in authorization and an empty x-api-key.
C3_Witness ==
    /\ req.method = "POST /"
    /\ IsProtected(req)
    /\ req.headers = Headers(KeyEmpty, KeyGood)
    /\ res.status = 201

\* ------------------------------------------------------------------------ C4

\* C4: the effective page size of GET / is an integer in [1, 100]: 10 for a
\* missing or non-numeric limit, 100 above 100, 1 below 1, else as given.
C4_LimitInRange ==
    req.method = "GET /" =>
        LET raw == req.query.limit
            given == parseInt(raw)
            eff == res.locals.limitNum
        IN /\ eff.kind = "number"
           /\ 1 <= eff.val /\ eff.val <= MaxLimit
           /\ (raw.kind = "undefined" \/ given.kind = "NaN") => eff = Num(DefaultLimit)
           /\ (given.kind = "number" /\ given.val > MaxLimit) => eff = Num(MaxLimit)
           /\ (given.kind = "number" /\ given.val < 1) => eff = Num(1)
           /\ (given.kind = "number" /\ given.val >= 1 /\ given.val <= MaxLimit)
                  => eff = given

\* ------------------------------------------------------------------------ C5

\* C5: the effective page number of GET / is an integer >= 1: 1 for a missing,
\* non-numeric or below-1 page; a malformed page raises no error.
C5_PageAtLeastOne ==
    req.method = "GET /" =>
        LET raw == req.query.page
            given == parseInt(raw)
            eff == res.locals.pageNum
        IN /\ eff.kind = "number"
           /\ eff.val >= 1
           /\ (raw.kind = "undefined" \/ given.kind = "NaN") => eff = Num(1)
           /\ (given.kind = "number" /\ given.val < 1) => eff = Num(1)
           /\ (/\ ~req.fail
               /\ req.query.limit.kind = "undefined"
               /\ req.query.minPrice.kind = "undefined"
               /\ req.query.maxPrice.kind = "undefined") => res.status = 200

\* ------------------------------------------------------------------------ C6

\* A bound that was supplied and parses as a number.
Parseable(v) == v.kind = "string" /\ parseFloat(v).kind = "number"

\* C6: GET / with only price parameters returns exactly the products with
\* price >= minPrice and <= maxPrice, a bound that is absent or unparsable
\* imposing no constraint.
C6_PriceFilter ==
    (/\ req.method = "GET /"
     /\ ~req.fail
     /\ req.query.page.kind = "undefined"
     /\ req.query.limit.kind = "undefined"
     /\ req.query.category.kind = "undefined"
     /\ req.query.inStock.kind = "undefined")
    => /\ res.status = 200
       /\ {res.products[k].id : k \in 1..Len(res.products)}
            = {i \in DOMAIN store :
                 /\ Parseable(req.query.minPrice)
                        => store[i].price >= parseFloat(req.query.minPrice).val
                 /\ Parseable(req.query.maxPrice)
                        => store[i].price <= parseFloat(req.query.maxPrice).val}

\* ------------------------------------------------------------------------ C7

\* C7: a malformed identity given to GET /:id, PUT /:id or DELETE /:id yields
\* a 4xx response, never a 5xx, and leaves the store unchanged.
C7_MalformedIdIsClientError ==
    [][(HasId(req') /\ req'.id = MalformedId)
       => (res'.status \in 400..499 /\ store' = store)]_vars

\* ------------------------------------------------------------------------ C8

\* C8 as stated: in every GET /stats response the counts of the categories sum
\* to summary.totalProducts, whatever is processed between the store calls.
C8_CategoryCountsSumToTotal ==
    (stats.pc = "done" /\ stats.response.status = 200)
    => SumCounts(stats.response.categories) = stats.response.summary.totalProducts

\* C8, amended: the counts of the categories sum to the number of products in
\* the store when the category aggregation runs; they sum to totalProducts
\* whenever the store then holds as many products as when totalProducts was
\* counted (as it does when no create or delete is processed in between), and
\* the response carries both values as computed.
C8_SumMatchesWhenStoreKeepsItsSize ==
    [][/\ (stats.pc = "outOfStock" /\ stats'.pc = "categories")
          => /\ SumCounts(stats'.categoryStats) = Cardinality(DOMAIN store)
             /\ Cardinality(DOMAIN store) = stats.totalProducts
                    => SumCounts(stats'.categoryStats) = stats'.totalProducts
       /\ (stats.pc = "categories" /\ stats'.pc = "done" /\ stats'.response.status = 200)
          => /\ stats'.response.summary.totalProducts = stats.totalProducts
             /\ stats'.response.categories = stats.categoryStats]_vars

\* A response over two categories, one with an out-of-stock product, whose
\* counts sum to the total of 2.
C8_Witness ==
    /\ stats.pc = "done"
    /\ stats.response.status = 200
    /\ Len(stats.response.categories) = 2
    /\ stats.response.summary.outOfStock = 1
    /\ stats.response.summary.totalProducts = 2
    /\ SumCounts(stats.response.categories) = 2

\* ------------------------------------------------------------------------ C9

\* An identity the store handed out and no longer holds: it was deleted.
WasDeleted(id) ==
    /\ id \in ObjectIds
    /\ IdIndex(id) < nextId
    /\ id \notin DOMAIN store

\* C9 as stated: an authenticated PUT of an identity not in the store yields
\* 404 and changes nothing; an authenticated DELETE of a deleted identity
\* yields 404 and changes nothing.
C9_MissingIdentityIsNotFound ==
    [][/\ (/\ req'.method = "PUT /:id"
           /\ IsProtected(req')
           /\ authenticate(req'.headers) = 0
           /\ ~req'.fail
           /\ req'.id \in ObjectIds
           /\ req'.id \notin DOMAIN store)
          => (res'.status = 404 /\ store' = store)
       /\ (/\ req'.method = "DELETE /:id"
           /\ IsProtected(req')
           /\ authenticate(req'.headers) = 0
           /\ ~req'.fail
           /\ WasDeleted(req'.id))
          => (res'.status = 404 /\ store' = store)]_vars

\* C9, amended: the PUT yields 404 when its body passes validation (a body
\* that fails it yields 400, whether or not the identity exists).
C9_MissingIdentityIsNotFoundForValidBody ==
    [][/\ (/\ req'.method = "PUT /:id"
           /\ IsProtected(req')
           /\ authenticate(req'.headers) = 0
           /\ ~req'.fail
           /\ req'.id \in ObjectIds
           /\ req'.id \notin DOMAIN store
           /\ ValidationErrors(req'.body) = <<>>)
          => (res'.status = 404 /\ store' = store)
       /\ (/\ req'.method = "DELETE /:id"
           /\ IsProtected(req')
           /\ authenticate(req'.headers) = 0
           /\ ~req'.fail
           /\ WasDeleted(req'.id))
          => (res'.status = 404 /\ store' = store)]_vars

\* An authenticated, valid update of a deleted identity was answered 404.
C9_Witness ==
    /\ req.method = "PUT /:id"
    /\ IsProtected(req)
    /\ authenticate(req.headers) = 0
    /\ ~req.fail
    /\ ValidationErrors(req.body) = <<>>
    /\ WasDeleted(req.id)
    /\ res.status = 404

\* ----------------------------------------------------------------------- C10

\* The request's store call failed with an unclassified error.
StoreCallFailed(r) ==
    CASE r.method = "NONE" -> FALSE
      [] ~("fail" \in DOMAIN r) -> FALSE
      [] r.method \in {"GET /:id", "GET /"} -> r.fail
      [] r.method = "GET /search" -> r.fail /\ Truthy(r.query.q) /\ Trim(r.query.q.val) # <<>>
      [] r.method = "DELETE /:id" -> r.fail /\ authenticate(r.headers) = 0
      [] OTHER -> r.fail /\ authenticate(r.headers) = 0 /\ ValidationErrors(r.body) = <<>>

\* C10: a store call or internal operation that fails with an unclassified
\* error yields a 500 whose body carries the error detail only outside
\* production; in production the detail is suppressed, for every endpoint.
C10_DetailOnlyOutsideProduction ==
    /\ (StoreCallFailed(req) \/ "malformedJson" \in DOMAIN req)
          => (res.status = 500 /\ (production => res.detail # "message"))
    /\ (stats.pc = "done" /\ stats.response.status = 500)
          => (production => stats.response.detail # "message")

\* ----------------------------------------------------------------------- C11

\* C11: on GET /search a requested limit above 100 is clamped to 100: the
\* effective page size of a successful search is at most 100, and the response
\* holds at most that many products.
C11_SearchLimitClamped ==
    (req.method = "GET /search" /\ res.status = 200)
    => /\ res.locals.limitNum.kind = "number" => res.locals.limitNum.val <= MaxLimit
       /\ Len(res.products) <= MaxLimit
       /\ (/\ parseInt(req.query.limit).kind = "number"
           /\ parseInt(req.query.limit).val > MaxLimit) => res.locals.limitNum = Num(MaxLimit)

\* ----------------------------------------------------------------------- C12

\* The orderings of the documents of the store that match the filter of the
\* query: each lists every matching document once, and no document comes after
\* one that the sort puts strictly after it (the field, descending after "-";
\* the default field is name and an empty sort orders nothing).
SortedMatches(st, q) ==
    LET ids == {i \in DOMAIN st : Matches(st[i], BuildFilter(q))}
        n == Cardinality(ids)
        srt == IF q.sort.kind = "undefined" THEN <<"n", "a", "m", "e">> ELSE q.sort.val
        desc == srt # <<>> /\ Head(srt) = "-"
        fld == IF desc THEN Tail(srt) ELSE srt
        InOrder(a, b) == IF desc THEN ~FieldLess(st[a], st[b], fld)
                         ELSE ~FieldLess(st[b], st[a], fld)
    IN {[k \in 1..n |-> WithId(p[k], st[p[k]])] :
           p \in {f \in [1..n -> ids] :
                     /\ \A i, j \in 1..n : i # j => f[i] # f[j]
                     /\ \A i, j \in 1..n : i < j => InOrder(f[i], f[j])}}

\* The elements of s at positions from + 1 .. from + count, as far as s goes.
Slice(s, from, count) ==
    [k \in 1..(IF Len(s) <= from THEN 0
               ELSE IF Len(s) - from < count THEN Len(s) - from ELSE count)
        |-> s[from + k]]

\* A listing whose effective page is >= 1 and limit in [1, 100], with a filter
\* free of NaN, and whose store calls do not fail.
ValidWindowRequest(r) ==
    /\ r.method = "GET /"
    /\ ~r.fail
    /\ PageNum(r.query.page).kind = "number"
    /\ LimitNum(r.query.limit).kind = "number"
    /\ BuildFilter(r.query).gte.kind # "NaN"
    /\ BuildFilter(r.query).lte.kind # "NaN"

\* C12: for a listing with effective page >= 1 and limit in [1, 100] the
\* products returned are the elements at positions skip .. skip + limit - 1,
\* skip = (page - 1) * limit, of the matches of the filter sorted by the sort
\* field in the requested direction; the count returned is at most limit.
C12_WindowOfSortedMatches ==
    ValidWindowRequest(req) =>
        LET page == res.locals.pageNum.val
            limit == res.locals.limitNum.val
        IN /\ res.status = 200
           /\ page >= 1 /\ limit \in 1..MaxLimit
           /\ res.locals.skip = Num((page - 1) * limit)
           /\ Len(res.products) <= limit
           /\ \E s \in SortedMatches(store, req.query) :
                  res.products = Slice(s, (page - 1) * limit, limit)

\* The second page of one, by price descending, of a store of two products of
\* different prices: the cheaper one.
C12_Witness ==
    /\ ValidWindowRequest(req)
    /\ req.query.sort = SortPriceDescending
    /\ req.query.page = Q(2)
    /\ req.query.limit = Q(1)
    /\ Cardinality(DOMAIN store) = 2
    /\ Len(res.products) = 1
    /\ res.products[1].price = 0
    /\ \E i \in DOMAIN store : store[i].price = 7

\* ----------------------------------------------------------------------- C13

\* The string with every letter in lower case.
LowerOf(s) == [k \in 1..Len(s) |-> ToLower(s[k])]

\* C13: GET / with only a category returns exactly the products whose category
\* equals the trimmed category supplied, ignoring letter case; a category that
\* is absent or empty after trimming filters nothing.
C13_CategoryExactIgnoringCase ==
    (/\ req.method = "GET /"
     /\ ~req.fail
     /\ req.query.inStock.kind = "undefined"
     /\ req.query.minPrice.kind = "undefined"
     /\ req.query.maxPrice.kind = "undefined"
     /\ req.query.page.kind = "undefined"
     /\ req.query.limit.kind = "undefined")
    => /\ res.status = 200
       /\ {res.products[k].id : k \in 1..Len(res.products)}
            = {i \in DOMAIN store :
                 (req.query.category.kind = "string" /\ Trim(req.query.category.val) # <<>>)
                     => LowerOf(store[i].category) = LowerOf(Trim(req.query.category.val))}

\* ----------------------------------------------------------------------- C14

\* A text field that is missing or blank.
MissingOrBlank(v) == v.kind = "undefined" \/ (v.kind = "string" /\ Trim(v.val) = <<>>)

ListsError(r, e) == \E k \in 1..Len(r.errors) : r.errors[k] = e

\* C14: a create (one that carries the key, so that it reaches validation)
\* whose body has no price or a negative price is answered 400 with an error
\* list that names the price violation, and the store is unchanged; likewise
\* for a missing or blank name, description or category.
C14_InvalidCreateIsRejected ==
    [][(req'.method = "POST /" /\ IsProtected(req') /\ authenticate(req'.headers) = 0)
       => LET b == req'.body
              Refused == res'.status = 400 /\ store' = store /\ nextId' = nextId
          IN /\ b.price.kind = "undefined"
                    => Refused /\ ListsError(res', "Price is required")
             /\ (b.price.kind = "number" /\ b.price.val < 0)
                    => Refused /\ ListsError(res', "Price must be a positive number")
             /\ MissingOrBlank(b.name)
                    => Refused /\ ListsError(res', "Name is required and must be a non-empty string")
             /\ MissingOrBlank(b.description)
                    => Refused /\ ListsError(res',
                                     "Description is required and must be a non-empty string")
             /\ MissingOrBlank(b.category)
                    => Refused /\ ListsError(res',
                                     "Category is required and must be a non-empty string")]_vars

\* A create with price -5 was answered 400 with the price error, after an
\* accepted create.
C14_Witness ==
    /\ req.method = "POST /"
    /\ IsProtected(req)
    /\ authenticate(req.headers) = 0
    /\ req.body.price = Num(0 - 5)
    /\ res.status = 400
    /\ res.errors = <<"Price must be a positive number">>
    /\ Cardinality(DOMAIN store) = 1

\* ----------------------------------------------------------------------- C15

\* A search term that is missing, empty or made of whitespace only.
BlankTerm(v) ==
    \/ v.kind = "undefined"
    \/ v.kind = "string" /\ \A k \in 1..Len(v.val) : IsSpace(v.val[k])

\* C15: a search whose q is missing, empty or whitespace only is answered 400,
\* not 200 with an empty result; no store query is issued for it (so that a
\* failing store does not change the answer).
C15_BlankSearchIsRejected ==
    (req.method = "GET /search" /\ BlankTerm(req.query.q))
    => /\ res.status = 400
       /\ ~res.queried
       /\ res.products = <<>>

\* A whitespace-only search over a store of one product, with a store that
\* would fail, was answered 400.
C15_Witness ==
    /\ req.method = "GET /search"
    /\ req.query.q = TextBlank
    /\ req.fail
    /\ Cardinality(DOMAIN store) = 1
    /\ res.status = 400
    /\ ~res.queried

\* ----------------------------------------------------------------------- C16

\* C16: GET /stats on an empty store succeeds with totalProducts 0,
\* inStockPercentage 0, priceStatistics the empty object and no categories.
\* Each store call of the handler that finds the store empty reads nothing,
\* and the response assembled from such reads is the one above; only a
\* failing store call is answered otherwise.
C16_EmptyStoreStatistics ==
    [][store = EmptyStore =>
        /\ (stats.pc \in {"idle", "done"} /\ stats'.pc = "total")
              => stats'.totalProducts = 0
        /\ (stats.pc = "total" /\ stats'.pc = "inStock")
              => stats'.inStockCount = 0
        /\ (stats.pc = "inStock" /\ stats'.pc = "outOfStock")
              => stats'.outOfStockCount = 0
        /\ (stats.pc = "outOfStock" /\ stats'.pc = "categories")
              => stats'.categoryStats = <<>>
        /\ (/\ stats.pc = "categories" /\ stats'.pc = "done"
            /\ stats.totalProducts = 0
            /\ stats.categoryStats = <<>>)
              => \/ stats'.response = StatsFailure
                 \/ /\ stats'.response.status = 200
                    /\ stats'.response.summary.totalProducts = 0
                    /\ stats'.response.summary.inStockPercentage = Num(0)
                    /\ stats'.response.priceStatistics = <<>>
                    /\ stats'.response.categories = <<>>]_vars

\* The statistics of a store that never held a product were answered.
C16_Witness ==
    /\ nextId = 1
    /\ store = EmptyStore
    /\ stats.pc = "done"
    /\ stats.response.status = 200
    /\ stats.response.summary.totalProducts = 0
    /\ stats.response.summary.inStockPercentage = Num(0)
    /\ stats.response.priceStatistics = <<>>

\* ----------------------------------------------------------------------- C17

\* totalPages is ceil(total / limit): the least number of pages of limit that
\* hold total items; it is NaN when limit is.
IsCeil(totalPages, total, limit) ==
    IF limit.kind = "NaN" THEN totalPages.kind = "NaN"
    ELSE /\ totalPages.kind = "number"
         /\ totalPages.val * limit.val >= total
         /\ (totalPages.val - 1) * limit.val < total

\* currentPage < totalPages and currentPage > 1; a comparison with NaN is false.
HasNextPage(m) ==
    /\ m.currentPage.kind = "number"
    /\ m.totalPages.kind = "number"
    /\ m.currentPage.val < m.totalPages.val
HasPrevPage(m) == m.currentPage.kind = "number" /\ m.currentPage.val > 1

\* C17: in every successful listing and search response totalPages is
\* ceil(total / limit), total being the count of all products matching the
\* filter; hasNext is true exactly when currentPage < totalPages and hasPrev
\* exactly when currentPage > 1; in a listing nextPage is currentPage + 1 when
\* hasNext and null otherwise, prevPage is currentPage - 1 when hasPrev and null
\* otherwise.
C17_PageMetadataConsistent ==
    /\ (req.method = "GET /" /\ res.status = 200)
       => LET m == res.pagination
          IN /\ m.totalProducts
                  = Cardinality({i \in DOMAIN store : Matches(store[i], BuildFilter(req.query))})
             /\ m.currentPage = res.locals.pageNum
             /\ m.productsPerPage = res.locals.limitNum
             /\ IsCeil(m.totalPages, m.totalProducts, m.productsPerPage)
             /\ m.hasNext <=> HasNextPage(m)
             /\ m.hasPrev <=> HasPrevPage(m)
             /\ m.nextPage = IF m.hasNext THEN Num(m.currentPage.val + 1) ELSE Null
             /\ m.prevPage = IF m.hasPrev THEN Num(m.currentPage.val - 1) ELSE Null
    /\ (req.method = "GET /search" /\ res.status = 200)
       => LET m == res.search
          IN /\ m.totalResults
                  = Cardinality({i \in DOMAIN store : SearchMatches(store[i], m.query)})
             /\ m.currentPage = res.locals.pageNum
             /\ IsCeil(m.totalPages, m.totalResults, res.locals.limitNum)
             /\ m.hasNext <=> HasNextPage(m)
             /\ m.hasPrev <=> HasPrevPage(m)

\* The second of two pages of one product each: a previous page and no next.
C17_Witness ==
    /\ req.method = "GET /"
    /\ res.status = 200
    /\ req.query.page = Q(2)
    /\ req.query.limit = Q(1)
    /\ res.pagination.totalProducts = 2
    /\ res.pagination.totalPages = Num(2)
    /\ res.pagination.hasPrev
    /\ ~res.pagination.hasNext
    /\ res.pagination.prevPage = Num(1)
    /\ res.pagination.nextPage = Null

=============================================================================
